---- MODULE Spec2Model ----
(***************************************************************************)
(* Recipe Robot (scripts/recipe-robot.py): one run of main().               *)
(*                                                                         *)
(* Strings are sequences of chunks: a chunk is a piece of text that the    *)
(* code's tests (startswith, endswith, find, split, re.sub) never cut.     *)
(* The empty string is <<>>.  A Python dict is a function whose DOMAIN is  *)
(* the set of keys present.  The answers of the outside world (file        *)
(* system, Info.plist, autopkg search, curl, codesign, sips) are the       *)
(* record env, fixed for a run; runs is the list of the handler runs made  *)
(* one after the other on the same bundle (RunApp).  prefs_file is the     *)
(* preferences plist on disk.  facts is the _dict of a Facts object,       *)
(* posted the notifications sent to the notification center, printed the   *)
(* calls of robo_print made by the lists, and stored the number of values  *)
(* that __setitem__ and insert have put in a list.                         *)
(***************************************************************************)
EXTENDS Integers, Sequences, FiniteSets, TLC

VARIABLES pc, env, recipes, prefs, handlersRun, walk, written, exitCode,
          exitStatus, fatal, menuOps, genIdx, app_name_found, runs,
          prefs_file, facts, posted, printed, stored

vars == <<pc, env, recipes, prefs, handlersRun, walk, written, exitCode,
          exitStatus, fatal, menuOps, genIdx, app_name_found, runs,
          prefs_file, facts, posted, printed, stored>>

\* the variables of recipe_robot_lib/facts.py
factsVars == <<facts, posted, printed, stored>>

(***************************************************************************)
(* Bounds of the model.                                                    *)
(***************************************************************************)
MaxUnpreferred == 1
MaxExisting == 1
MaxMenuOps == 1
MaxListLen == 2
MaxStored == 3
MaxPosted == 3

(***************************************************************************)
(* Dict helpers.                                                           *)
(***************************************************************************)
EmptyDict == <<>>

HasKey(d, k) == k \in DOMAIN d

SetKey(d, k, v) == (k :> v) @@ d

EmptyString == <<>>

(***************************************************************************)
(* init_recipes: the registry, in the order of the tuple.                  *)
(***************************************************************************)
init_recipes_names_swapped == <<"download", "munki", "install", "pkg", "jss", "absolute", "sccm", "ds">>

init_recipes_names == <<"download", "munki", "pkg", "install", "jss", "absolute", "sccm", "ds">>

Kinds == {"download", "munki", "pkg", "install", "jss", "absolute", "sccm", "ds"}

NumKinds == Cardinality(Kinds)

default_keys == [Identifier |-> EmptyString, MinimumVersion |-> <<"0.5.0">>, Input |-> EmptyDict, Process |-> <<>>]

init_recipes == [k \in Kinds |-> [name |-> k, preferred |-> TRUE, existing |-> FALSE, buildable |-> FALSE, selected |-> TRUE, icon_path |-> EmptyString, keys |-> default_keys]]

(***************************************************************************)
(* Download formats.                                                       *)
(***************************************************************************)
supported_image_formats == <<"dmg", "iso">>

supported_archive_formats == <<"zip", "tar.gz", "gzip", "tar.bz2">>

supported_install_formats == <<"pkg", "mpkg">>

all_supported_formats == supported_image_formats \o supported_archive_formats \o supported_install_formats

InTuple(x, t) == \E i \in 1..Len(t) : t[i] = x

(***************************************************************************)
(* robo_print: only the "error" type ends the run (sys.exit(1)).           *)
(***************************************************************************)
robo_print_exits_never(output_type) == FALSE

robo_print_exits(output_type) == output_type = "error"

(***************************************************************************)
(* create_buildable_recipe_list: one recipe of the loop, then the loop.    *)
(***************************************************************************)
buildable_after_ignoring_existing(recipe, include_existing) == IF recipe.preferred THEN TRUE ELSE recipe.buildable

buildable_after(recipe, include_existing) ==
    IF include_existing = FALSE
      THEN IF recipe.preferred = TRUE /\ recipe.existing = FALSE THEN TRUE ELSE recipe.buildable
      ELSE IF recipe.preferred = TRUE THEN TRUE ELSE recipe.buildable

create_buildable_recipe_list(recs, include_existing) ==
    [k \in Kinds |-> [recs[k] EXCEPT !.buildable = buildable_after(recs[k], include_existing)]]

(***************************************************************************)
(* create_existing_recipe_list.  A search line is [name, kind], the file   *)
(* name <name>.<kind>.recipe that the line shows; "recipe_name in line" is *)
(* a substring test, so the searched name may be a proper suffix of name.  *)
(***************************************************************************)
WhitespaceChunks == {" "}

SymbolChunks == {"-", "."}

IsWhitespace(c) == c \in WhitespaceChunks

IsWord(c) == c \notin WhitespaceChunks /\ c \notin SymbolChunks

app_name_no_space(app_name) == SelectSeq(app_name, LAMBDA c : ~IsWhitespace(c))

app_name_no_symbol(app_name) == SelectSeq(app_name, IsWord)

recipe_searches(app_name) ==
    LET s1 == <<app_name>>
        s2 == IF app_name_no_space(app_name) # app_name THEN Append(s1, app_name_no_space(app_name)) ELSE s1
    IN  IF app_name_no_symbol(app_name) # app_name /\ app_name_no_symbol(app_name) # app_name_no_space(app_name)
          THEN Append(s2, app_name_no_symbol(app_name))
          ELSE s2

IsSuffix(s, t) == Len(s) <= Len(t) /\ SubSeq(t, Len(t) - Len(s) + 1, Len(t)) = s

recipe_name_in_line(this_search, kind, line) == line.kind = kind /\ IsSuffix(this_search, line.name)

mark_existing(recs, this_search, out) ==
    [k \in Kinds |-> IF \E line \in out : recipe_name_in_line(this_search, k, line)
                       THEN [recs[k] EXCEPT !.existing = TRUE]
                       ELSE recs[k]]

\* The loop over recipe_searches from position i on: the result is the
\* recipes and whether robo_print("error", err) ended the run.
RECURSIVE existing_loop(_, _, _, _)
existing_loop(i, searches, recs, search) ==
    IF i > Len(searches)
      THEN [recipes |-> recs, exited |-> FALSE]
      ELSE IF searches[i] \notin search.failing
             THEN existing_loop(i + 1, searches, mark_existing(recs, searches[i], search.out), search)
             ELSE IF robo_print_exits("error")
                    THEN [recipes |-> recs, exited |-> TRUE]
                    ELSE existing_loop(i + 1, searches, recs, search)

create_existing_recipe_list(app_name, recs, search) == existing_loop(1, recipe_searches(app_name), recs, search)

(***************************************************************************)
(* extract_app_icon: TRUE when robo_print("error", ...) is reached, in     *)
(* create_dest_dirs or after a failing sips.                               *)
(***************************************************************************)
create_dest_dirs_fails(e) == ~e.destDirExists /\ ~e.mkdirOk

\* the first argument of extract_app_icon(recipe["icon_path"], png_path) in
\* the munki and jss branches of handle_app_input
extract_app_icon_source(recipe) == recipe.icon_path

\* sips gives an error when the png is already there
extract_app_icon_fails_on_existing_png(e, pngWritten) ==
    \/ create_dest_dirs_fails(e)
    \/ e.pngExists \/ pngWritten \/ ~e.sipsOk

extract_app_icon_fails(e, pngWritten) ==
    \/ create_dest_dirs_fails(e)
    \/ ~(e.pngExists \/ pngWritten) /\ ~e.sipsOk

(***************************************************************************)
(* handle_app_input, second half: the loop that sends the discovered       *)
(* facts F to the recipe keys.  A processing step is [Processor, Arg],     *)
(* Arg the one argument that depends on the facts (<<>> when none does).   *)
(***************************************************************************)
Step(processor, arg) == [Processor |-> processor, Arg |-> arg]

Identifier(prefix, kind, app_name) == <<prefix, kind, app_name>>

SetInput(keys, k, v) == [keys EXCEPT !.Input = SetKey(@, k, v)]

AppendProcess(keys, steps) == [keys EXCEPT !.Process = @ \o steps]

\* Lines 956-960: done for every recipe, buildable or not.
app_keys_universal(recipe, F) ==
    [SetInput(recipe.keys, "NAME", F.app_name) EXCEPT !.Identifier = Identifier(F.prefix, recipe.name, F.app_name)]

\* Lines 1046, 1075, 1143, 1149, 1174, 1180, 1186: the kind named in the
\* ParentRecipe that handle_app_input writes for each kind.
ParentKind(kind) ==
    CASE kind = "munki" -> "download"
      [] kind = "pkg" -> "download"
      [] kind = "install" -> "pkg"
      [] kind = "jss" -> "pkg"
      [] kind = "absolute" -> "pkg"
      [] kind = "sccm" -> "pkg"
      [] kind = "ds" -> "download"
      [] OTHER -> "none"

HasParentKind(kind) == ParentKind(kind) # "none"

app_parent_recipe(kind, F) == Identifier(F.prefix, ParentKind(kind), F.app_name)

code_sign_steps_verify_first(F) ==
    IF F.code_signed /\ InTuple(F.download_format, all_supported_formats)
      THEN IF InTuple(F.download_format, supported_archive_formats)
             THEN <<Step("CodeSignatureVerifier", F.code_sign_reqs), Step("Unarchiver", <<>>), Step("PathDeleter", <<>>)>>
             ELSE <<Step("CodeSignatureVerifier", F.code_sign_reqs)>>
      ELSE <<>>

code_sign_steps(F) ==
    IF F.code_signed
      THEN IF InTuple(F.download_format, supported_image_formats)
             THEN <<Step("CodeSignatureVerifier", F.code_sign_reqs)>>
             ELSE IF InTuple(F.download_format, supported_install_formats)
                    THEN <<>>
                    ELSE IF InTuple(F.download_format, supported_archive_formats)
                           THEN <<Step("Unarchiver", <<>>), Step("CodeSignatureVerifier", F.code_sign_reqs), Step("PathDeleter", <<>>)>>
                           ELSE <<>>
      ELSE <<>>

synth_download(keys, F) ==
    LET k1 == SetKey(keys, "Description", <<"Downloads the latest version of", F.app_name>>)
        k2 == IF F.sparkle_feed # ""
                THEN AppendProcess(SetInput(k1, "SPARKLE_FEED_URL", F.sparkle_feed), <<Step("SparkleUpdateInfoProvider", <<>>)>>)
                ELSE IF F.github_repo # ""
                       THEN AppendProcess(k1, <<Step("GitHubReleasesInfoProvider", <<F.github_repo>>)>>)
                       ELSE IF F.sourceforge_id # ""
                              THEN SetInput(SetInput(k1, "SOURCEFORGE_FILE_PATTERN", <<F.app_name, F.download_format>>), "SOURCEFORGE_PROJECT_ID", F.sourceforge_id)
                              ELSE k1
    IN  AppendProcess(k2, <<Step("URLDownloader", <<F.download_format>>), Step("EndOfCheckPhase", <<>>)>> \o code_sign_steps(F))

\* munki up to the call of extract_app_icon, and from there on.
synth_munki_head(keys, F) ==
    SetKey(SetKey(keys, "Description", <<"Imports the latest version of into Munki", F.app_name>>),
           "ParentRecipe", app_parent_recipe("munki", F))

synth_munki_tail(keys, F) ==
    AppendProcess(SetInput(SetInput(keys, "MUNKI_REPO_SUBDIR", F.app_name),
                           "pkginfo", [description |-> F.description, name |-> F.app_name]),
                  <<Step("MunkiImporter", <<F.download_format>>)>>)

pkg_format_steps(F) ==
    IF InTuple(F.download_format, supported_image_formats)
      THEN <<Step("AppDmgVersioner", <<>>), Step("Copier", <<>>)>>
      ELSE IF InTuple(F.download_format, supported_install_formats)
             THEN <<>>
             ELSE IF InTuple(F.download_format, supported_archive_formats)
                    THEN <<Step("Unarchiver", <<>>), Step("Versioner", <<>>)>>
                    ELSE <<>>

synth_pkg(keys, F) ==
    LET k1 == SetKey(SetKey(keys, "Description", <<"Downloads the latest version of and creates an installer package", F.app_name>>),
                     "ParentRecipe", app_parent_recipe("pkg", F))
        k2 == IF F.bundle_id # "" THEN SetInput(k1, "PKG_ID", F.bundle_id) ELSE k1
    IN  AppendProcess(k2, <<Step("PkgRootCreator", <<>>)>> \o pkg_format_steps(F) \o <<Step("PkgCreator", <<>>)>>)

synth_install(keys, F) ==
    SetKey(SetKey(keys, "Description", <<"Installs the latest version of", F.app_name>>),
           "ParentRecipe", app_parent_recipe("install", F))

\* jss up to the call of extract_app_icon, and from there on.
synth_jss_head(keys, F) ==
    LET k1 == SetKey(SetKey(keys, "Description", <<"Imports the latest version of into your JSS", F.app_name>>),
                     "ParentRecipe", app_parent_recipe("jss", F))
    IN  SetInput(SetInput(SetInput(SetInput(SetInput(k1, "category", "None"), "policy_category", "Testing"),
                 "policy_template", "PolicyTemplate.xml"), "groups", <<>>), "GROUP_TEMPLATE", "SmartGroupTemplate.xml")

synth_jss_tail(keys, F) ==
    LET k1 == SetInput(keys, "prod_name", F.app_name)
        k2 == IF F.icon_path # EmptyString THEN SetInput(k1, "self_service_icon", F.app_name) ELSE k1
    IN  SetInput(SetInput(k2, "self_service_description", F.description), "GROUP_NAME", F.app_name)

synth_absolute(keys, F) ==
    SetKey(SetKey(keys, "Description", <<"Imports the latest version of into Absolute Manage", F.app_name>>),
           "ParentRecipe", app_parent_recipe("absolute", F))

synth_sccm(keys, F) ==
    SetKey(SetKey(keys, "Description", <<"Downloads the latest version of and creates a cmmac package", F.app_name>>),
           "ParentRecipe", app_parent_recipe("sccm", F))

synth_ds(keys, F) ==
    SetKey(SetKey(keys, "Description", <<"Imports the latest version of into DeployStudio", F.app_name>>),
           "ParentRecipe", app_parent_recipe("ds", F))

\* One pass of the loop body for a buildable recipe: the keys it leaves and
\* whether extract_app_icon ended the run inside it.
app_synth(recipe, F, e, pngWritten) ==
    LET keys == app_keys_universal(recipe, F)
        iconExit == F.icon_path # EmptyString /\ extract_app_icon_fails(e, pngWritten) /\ robo_print_exits("error")
    IN  CASE ~recipe.buildable -> [keys |-> keys, exited |-> FALSE]
          [] recipe.buildable /\ recipe.name = "download" -> [keys |-> synth_download(keys, F), exited |-> FALSE]
          [] recipe.buildable /\ recipe.name = "munki" ->
               IF iconExit THEN [keys |-> synth_munki_head(keys, F), exited |-> TRUE]
                           ELSE [keys |-> synth_munki_tail(synth_munki_head(keys, F), F), exited |-> FALSE]
          [] recipe.buildable /\ recipe.name = "pkg" -> [keys |-> synth_pkg(keys, F), exited |-> FALSE]
          [] recipe.buildable /\ recipe.name = "install" -> [keys |-> synth_install(keys, F), exited |-> FALSE]
          [] recipe.buildable /\ recipe.name = "jss" ->
               IF iconExit THEN [keys |-> synth_jss_head(keys, F), exited |-> TRUE]
                           ELSE [keys |-> synth_jss_tail(synth_jss_head(keys, F), F), exited |-> FALSE]
          [] recipe.buildable /\ recipe.name = "absolute" -> [keys |-> synth_absolute(keys, F), exited |-> FALSE]
          [] recipe.buildable /\ recipe.name = "sccm" -> [keys |-> synth_sccm(keys, F), exited |-> FALSE]
          [] recipe.buildable /\ recipe.name = "ds" -> [keys |-> synth_ds(keys, F), exited |-> FALSE]

\* The loop "for recipe in recipes:" from position i of the registry on;
\* visited is the order in which the recipes were taken.
RECURSIVE app_loop(_, _, _, _, _, _)
app_loop(i, recs, visited, F, e, pngWritten) ==
    IF i > Len(init_recipes_names)
      THEN [recipes |-> recs, walk |-> visited, exited |-> FALSE]
      ELSE LET k == init_recipes_names[i]
               r == app_synth(recs[k], F, e, pngWritten)
               recs2 == [recs EXCEPT ![k].keys = r.keys]
               png2 == pngWritten \/ (recs[k].buildable /\ k \in {"munki", "jss"} /\ F.icon_path # EmptyString /\ ~r.exited
                                      /\ ~extract_app_icon_fails(e, pngWritten))
           IN  IF r.exited
                 THEN [recipes |-> recs2, walk |-> Append(visited, k), exited |-> TRUE]
                 ELSE app_loop(i + 1, recs2, Append(visited, k), F, e, png2)

(***************************************************************************)
(* get_sparkle_download_format: curl is the command's answer, "raise" (the *)
(* command could not be started), "fail" (non-zero exit) or the last chunk *)
(* of its output.  The result is the first format of all_supported_formats *)
(* the output ends with, "None" when the function returns nothing.         *)
(***************************************************************************)
EndsWithFormat(out, this_format) ==
    \/ out = this_format
    \/ out = "gzip" /\ this_format = "zip"
    \/ out = "mpkg" /\ this_format = "pkg"

RECURSIVE first_format(_, _)
first_format(i, out) ==
    IF i > Len(all_supported_formats)
      THEN "None"
      ELSE IF EndsWithFormat(out, all_supported_formats[i])
             THEN all_supported_formats[i]
             ELSE first_format(i + 1, out)

get_sparkle_download_format(curl) == IF curl = "fail" THEN "None" ELSE first_format(1, curl)

(***************************************************************************)
(* handle_app_input, first half: the facts.                                *)
(***************************************************************************)
PlistGet(plist, key, default) == IF HasKey(plist, key) THEN plist[key] ELSE default

RECURSIVE LastIndexOf(_, _)
LastIndexOf(s, c) == IF s = <<>> THEN 0 ELSE IF s[Len(s)] = c THEN Len(s) ELSE LastIndexOf(SubSeq(s, 1, Len(s) - 1), c)

basename(path) == SubSeq(path, LastIndexOf(path, "/") + 1, Len(path))

\* os.path.basename(input_path)[:-4], for a path that ends in ".app"
basename_without_app(path) == SubSeq(basename(path), 1, Len(basename(path)) - 1)

app_name_of_ignoring_empty(plist, input_path) ==
    IF HasKey(plist, "CFBundleName")
      THEN plist["CFBundleName"]
      ELSE IF HasKey(plist, "CFBundleExecutable") THEN plist["CFBundleExecutable"] ELSE basename_without_app(input_path)

app_name_of(plist, input_path) ==
    LET n1 == PlistGet(plist, "CFBundleName", EmptyString)
        n2 == IF n1 = EmptyString THEN PlistGet(plist, "CFBundleExecutable", EmptyString) ELSE n1
    IN  IF n2 = EmptyString THEN basename_without_app(input_path) ELSE n2

\* Lines 860-876: the feed and the download format found with it.
sparkle_of(plist, curl) ==
    LET f1 == PlistGet(plist, "SUFeedURL", "")
        d1 == IF HasKey(plist, "SUFeedURL") /\ curl # "raise" THEN get_sparkle_download_format(curl) ELSE ""
        f2 == IF f1 = "" THEN PlistGet(plist, "SUOriginalFeedURL", "") ELSE f1
        d2 == IF f1 = "" /\ HasKey(plist, "SUOriginalFeedURL") /\ curl # "raise" THEN get_sparkle_download_format(curl) ELSE d1
    IN  [sparkle_feed |-> f2, download_format |-> d2]

sparkle_is_optional(sparkle_feed) == FALSE

sparkle_is_missing(sparkle_feed) == sparkle_feed = ""

app_facts(plist, input_path, prefs_, e) ==
    [app_name |-> app_name_of(plist, input_path),
     prefix |-> prefs_.RecipeIdentifierPrefix,
     sparkle_feed |-> sparkle_of(plist, e.curl).sparkle_feed,
     github_repo |-> "",
     sourceforge_id |-> "",
     download_format |-> sparkle_of(plist, e.curl).download_format,
     icon_path |-> IF HasKey(plist, "CFBundleIconFile") THEN input_path \o <<"/Contents/Resources/", plist["CFBundleIconFile"]>> ELSE EmptyString,
     bundle_id |-> PlistGet(plist, "CFBundleIdentifier", ""),
     description |-> e.description,
     code_signed |-> e.codesign.signed,
     code_sign_reqs |-> IF e.codesign.signed THEN e.codesign.reqs ELSE EmptyString]

Result(outcome, tag, recs, visited, name) == [outcome |-> outcome, tag |-> tag, recipes |-> recs, walk |-> visited, app_name |-> name]

\* The whole handler: outcome "ok" (returned), "error" (robo_print("error")
\* raised SystemExit; tag says where) or "traceback" (another exception left
\* the handler).
handle_app_input(input_path, recs, include_existing, prefs_, e) ==
    IF ~e.plistReadable
      THEN Result(IF robo_print_exits("error") THEN "error" ELSE "traceback", "InvalidApp", recs, <<>>, EmptyString)
      ELSE LET F == app_facts(e.plist, input_path, prefs_, e)
               ex == IF include_existing # TRUE
                       THEN create_existing_recipe_list(F.app_name, recs, e.search)
                       ELSE [recipes |-> recs, exited |-> FALSE]
               recs2 == create_buildable_recipe_list(ex.recipes, include_existing)
               loop == app_loop(1, recs2, <<>>, F, e, FALSE)
           IN  IF ex.exited
                 THEN Result("error", "SearchFailed", ex.recipes, <<>>, F.app_name)
                 ELSE IF sparkle_is_missing(F.sparkle_feed) /\ robo_print_exits("error")
                        THEN Result("error", "NoSparkleFeed", recs2, <<>>, F.app_name)
                        ELSE IF loop.exited
                               THEN Result("error", "IconFailed", loop.recipes, loop.walk, F.app_name)
                               ELSE Result("ok", "none", loop.recipes, loop.walk, F.app_name)

(***************************************************************************)
(* handle_download_recipe_input and the seven other recipe handlers.       *)
(* file is the input recipe: readable or not, and its plist as a dict.     *)
(***************************************************************************)
\* grep '.<format></string>': the dot matches any character.
GrepMatches(download_format, bodyFormat) ==
    \/ bodyFormat = download_format
    \/ bodyFormat = "gzip" /\ download_format = "zip"
    \/ bodyFormat = "mpkg" /\ download_format = "pkg"

RECURSIVE parsed_format_from(_, _)
parsed_format_from(i, bodyFormats) ==
    IF i > Len(all_supported_formats)
      THEN ""
      ELSE IF \E b \in bodyFormats : GrepMatches(all_supported_formats[i], b)
             THEN all_supported_formats[i]
             ELSE parsed_format_from(i + 1, bodyFormats)

parsed_download_format(bodyFormats) == parsed_format_from(1, bodyFormats)

\* Lines 1231-1232 (and the same two lines of the other handlers).
recipe_keys_universal(recipe, app_name, input_recipe) ==
    SetKey(SetInput(recipe.keys, "NAME", app_name), "ParentRecipe", input_recipe["Identifier"])

\* recipe["Process"].append(...) at lines 1241 and 1283: recipe has no key
\* "Process" (it is recipe["keys"]["Process"]), so this raises KeyError.
download_recipe_pkg_raises(fmt) ==
    InTuple(fmt, supported_image_formats) \/ InTuple(fmt, supported_archive_formats)

RECURSIVE recipe_loop(_, _, _, _, _, _)
recipe_loop(i, recs, visited, app_name, input_recipe, raisingFormat) ==
    IF i > Len(init_recipes_names)
      THEN [recipes |-> recs, walk |-> visited, raised |-> FALSE]
      ELSE LET k == init_recipes_names[i]
               recs2 == [recs EXCEPT ![k].keys = recipe_keys_universal(recs[k], app_name, input_recipe)]
           IN  IF recs[k].buildable /\ k = "pkg" /\ raisingFormat
                 THEN [recipes |-> recs2, walk |-> Append(visited, k), raised |-> TRUE]
                 ELSE recipe_loop(i + 1, recs2, Append(visited, k), app_name, input_recipe, raisingFormat)

handle_recipe_input(kind, recs, include_existing, e) ==
    IF ~e.file.readable \/ ~HasKey(e.file.plist, "Input") \/ ~HasKey(e.file.plist["Input"], "NAME")
      THEN Result("traceback", "KeyError", recs, <<>>, EmptyString)
      ELSE LET app_name == e.file.plist["Input"]["NAME"]
               ex == create_existing_recipe_list(app_name, recs, e.search)
               recs2 == create_buildable_recipe_list(ex.recipes, include_existing)
               fmt == parsed_download_format(e.file.bodyFormats)
               loop == recipe_loop(1, recs2, <<>>, app_name, e.file.plist, kind = "download" /\ download_recipe_pkg_raises(fmt))
           IN  IF ex.exited
                 THEN Result("error", "SearchFailed", ex.recipes, <<>>, app_name)
                 ELSE IF ~HasKey(e.file.plist, "Identifier")
                        THEN Result("traceback", "KeyError", [recs2 EXCEPT ![init_recipes_names[1]].keys = SetInput(@, "NAME", app_name)], <<init_recipes_names[1]>>, app_name)
                        ELSE IF loop.raised
                               THEN Result("traceback", "KeyError", loop.recipes, loop.walk, app_name)
                               ELSE Result("ok", "none", loop.recipes, loop.walk, app_name)

(***************************************************************************)
(* main: the classification of the input path (lines 1962-2001).           *)
(***************************************************************************)
startswith(s, chunk) == s # <<>> /\ s[1] = chunk

endswith(s, chunk) == s # <<>> /\ s[Len(s)] = chunk

\* str.find: the (0-based) position of the first occurrence, -1 when absent
RECURSIVE find_from(_, _, _)
find_from(s, chunk, i) == IF i > Len(s) THEN -1 ELSE IF s[i] = chunk THEN i - 1 ELSE find_from(s, chunk, i + 1)

find(s, chunk) == find_from(s, chunk, 1)

\* an int used as a condition
Truthy(n) == n # 0

RECURSIVE rstrip(_)
rstrip(s) == IF s # <<>> /\ s[Len(s)] \in {"/", " "} THEN rstrip(SubSeq(s, 1, Len(s) - 1)) ELSE s

RecipeSuffix(kind) ==
    CASE kind = "download" -> ".download.recipe"
      [] kind = "munki" -> ".munki.recipe"
      [] kind = "pkg" -> ".pkg.recipe"
      [] kind = "install" -> ".install.recipe"
      [] kind = "jss" -> ".jss.recipe"
      [] kind = "absolute" -> ".absolute.recipe"
      [] kind = "sccm" -> ".sccm.recipe"
      [] kind = "ds" -> ".ds.recipe"

UrlHandlers == {"github_url", "sourceforge_url", "download_url"}

Dispatched(handlers, error) == [handlers |-> handlers, error |-> error]

\* what main does with a local path: the handler it calls, or the error
local_dispatch(input_path, exists) ==
    IF exists
      THEN IF endswith(input_path, ".app")
             THEN Dispatched(<<"app">>, "none")
             ELSE IF \E k \in Kinds : endswith(input_path, RecipeSuffix(k))
                    THEN Dispatched(<<CHOOSE k \in Kinds : endswith(input_path, RecipeSuffix(k))>>, "none")
                    ELSE Dispatched(<<>>, "UnrecognizedInput")
      ELSE Dispatched(<<>>, "PathDoesNotExist")

main_dispatch(input_path, exists) ==
    IF startswith(input_path, "http")
      THEN Dispatched((IF Truthy(find(input_path, "github.com")) THEN <<"github_url">> ELSE <<>>)
                      \o (IF Truthy(find(input_path, "sourceforge.com")) THEN <<"sourceforge_url">> ELSE <<"download_url">>), "none")
      ELSE IF startswith(input_path, "ftp")
             THEN Dispatched(<<"download_url">>, "none")
             ELSE local_dispatch(input_path, exists)

\* main's "except (KeyboardInterrupt, SystemExit)": it prints and main
\* returns, so the interpreter ends with status 0 whatever the code was.
main_except_status(code) == 0

(***************************************************************************)
(* recipe_robot_lib/facts.py.  A Python value is [type, text, items]: its  *)
(* type, the text it holds (for a bool "True" or "False") and, for a list, *)
(* its items.  An object kept by Facts is [cls, message_type, text,        *)
(* items], cls the class of the object.                                    *)
(***************************************************************************)
PyValue(type, text, items) == [type |-> type, text |-> text, items |-> items]

PyStr(text) == PyValue("str", text, <<>>)

PyUnicode(text) == PyValue("unicode", text, <<>>)

PyBool(text) == PyValue("bool", text, <<>>)

PyList(items) == PyValue("list", "", items)

\* the unicode texts that the ascii codec cannot encode
NonAsciiTexts == {"Caf\\xe9"}

\* str(val): raises UnicodeEncodeError for unicode text outside ascii
str_raises(val) == val.type = "unicode" /\ val.text \in NonAsciiTexts

str_of(val) == val.text

Object(cls, message_type, text, items) == [cls |-> cls, message_type |-> message_type, text |-> text, items |-> items]

NotifyingList(message_type, iterable) == Object("NotifyingList", message_type, "", iterable)

NoisyNotifyingList(message_type) == Object("NoisyNotifyingList", message_type, "", <<>>)

ListClasses == {"NotifyingList", "NoisyNotifyingList"}

default_suffix == "information"

\* Facts.__init__
Facts_init ==
    [k \in {"errors", "reminders", "warnings", "recipes", "icons"} |->
        IF k \in {"errors", "reminders", "warnings"} THEN NoisyNotifyingList(k) ELSE NotifyingList(k, <<>>)]

\* no preferences file on disk
NoFile == <<>>

FactsInit ==
    /\ facts = Facts_init
    /\ posted = <<>>
    /\ printed = <<>>
    /\ stored = 0

\* postNotificationName_object_userInfo_options_: the name ends in the
\* message type, userInfo is {"message": str(message)}
Notification(message_type, message) == [name |-> message_type, message |-> message]

\* self.message_type.rstrip("s").upper()
log_level_name(message_type) ==
    CASE message_type = "errors" -> "ERROR"
      [] message_type = "reminders" -> "REMINDER"
      [] message_type = "warnings" -> "WARNING"
      [] OTHER -> "INFORMATION"

\* The effect of a call on the center and the console: what is appended to
\* posted and to printed.
Sent(notes, prints) == [posted |-> notes, printed |-> prints]

send_notification(self, message) ==
    IF self.cls = "NoisyNotifyingList"
      THEN Sent(<<Notification(self.message_type, message)>>, <<[message |-> message, log_level |-> log_level_name(self.message_type)]>>)
      ELSE Sent(<<Notification(self.message_type, message)>>, <<>>)

NothingSent == Sent(<<>>, <<>>)

\* A call on a list gives the list after it, what was sent, how many values
\* were put in the list and whether an exception left the call.
Called(self, sent, count, raised) == [self |-> self, sent |-> sent, stored |-> count, raised |-> raised]

InsertAt(s, index, item) == SubSeq(s, 1, index) \o <<item>> \o SubSeq(s, index + 1, Len(s))

RemoveAt(s, index) == SubSeq(s, 1, index) \o SubSeq(s, index + 2, Len(s))

\* NotifyingList.insert (index counts from 0, as in Python)
list_insert(self, index, item) ==
    LET self2 == [self EXCEPT !.items = InsertAt(@, index, item)]
    IN  IF str_raises(item)
          THEN Called(self2, NothingSent, 1, TRUE)
          ELSE Called(self2, send_notification(self, str_of(item)), 1, FALSE)

\* MutableSequence.append: self.insert(len(self), value)
list_append(self, value) == list_insert(self, Len(self.items), value)

\* MutableSequence.extend: for v in values: self.append(v)
RECURSIVE list_extend(_, _)
list_extend(self, values) ==
    IF values = <<>>
      THEN Called(self, NothingSent, 0, FALSE)
      ELSE LET first == list_append(self, Head(values))
               rest == list_extend(first.self, Tail(values))
           IN  IF first.raised
                 THEN first
                 ELSE Called(rest.self, Sent(first.sent.posted \o rest.sent.posted, first.sent.printed \o rest.sent.printed),
                             first.stored + rest.stored, rest.raised)

\* NotifyingList.__setitem__, for an index of the list
list_setitem(self, index, val) ==
    LET self2 == [self EXCEPT !.items[index + 1] = val]
    IN  IF str_raises(val)
          THEN Called(self2, NothingSent, 1, TRUE)
          ELSE Called(self2, send_notification(self, str_of(val)), 1, FALSE)

\* NotifyingList.__delitem__, for an index of the list
list_delitem(self, index) == Called([self EXCEPT !.items = RemoveAt(@, index)], NothingSent, 0, FALSE)

\* MutableSequence.pop: v = self[index]; del self[index]; return v
list_pop(self, index) == list_delitem(self, index)

\* Facts.__setitem__: the object kept under the key, what its constructor
\* sent, and whether the constructor raised (nothing is kept then).
facts_setitem(val) ==
    CASE val.type \in {"str", "unicode"} ->
           IF str_raises(val)
             THEN Called(Object("none", "", "", <<>>), NothingSent, 0, TRUE)
             ELSE Called(Object("NotifyingString", default_suffix, str_of(val), <<>>),
                         Sent(<<Notification(default_suffix, str_of(val))>>, <<>>), 0, FALSE)
      [] val.type = "list" -> Called(NotifyingList(default_suffix, val.items), NothingSent, 0, FALSE)
      [] val.type = "bool" ->
           Called(Object("bool", "", val.text, <<>>), Sent(<<Notification(default_suffix, str_of(val))>>, <<>>), 0, FALSE)
      [] OTHER -> Called(Object(val.type, "", val.text, <<>>), NothingSent, 0, FALSE)

(***************************************************************************)
(* The run.                                                                *)
(***************************************************************************)
input_path_of(e) == rstrip(e.path)

RaiseError(tag) ==
    /\ pc' = "SystemExit"
    /\ exitCode' = 1
    /\ fatal' = tag

\* init_prefs: the preferred flags and the preferences that the menu of
\* build_prefs leaves, or "Q" typed in that menu.
InitPrefs ==
    /\ pc = "init_prefs"
    /\ IF env.prefsChoice = "Q"
         THEN /\ pc' = "SystemExit"
              /\ exitCode' = 0
              /\ UNCHANGED <<recipes, prefs>>
         ELSE /\ recipes' = [k \in Kinds |-> [recipes[k] EXCEPT !.preferred = (k \in env.preferred)]]
              /\ prefs' = [RecipeCreateCount |-> 0, RecipeIdentifierPrefix |-> env.prefix, RecipeCreateLocation |-> "RecipeOverrides"]
              /\ pc' = "dispatch"
              /\ UNCHANGED exitCode
    /\ UNCHANGED <<env, runs, prefs_file, factsVars, handlersRun, walk, written, exitStatus, fatal, menuOps, genIdx, app_name_found>>

Dispatch ==
    /\ pc = "dispatch"
    /\ LET d == main_dispatch(input_path_of(env), env.exists)
       IN  /\ handlersRun' = d.handlers
           /\ IF d.error # "none"
                THEN IF robo_print_exits("error")
                       THEN RaiseError(d.error)
                       ELSE pc' = "select" /\ fatal' = d.error /\ UNCHANGED exitCode
                ELSE /\ pc' = IF d.handlers[Len(d.handlers)] \in UrlHandlers THEN "select"
                              ELSE IF d.handlers = <<"app">> THEN "handle_app" ELSE "handle_recipe"
                     /\ UNCHANGED <<exitCode, fatal>>
    /\ UNCHANGED <<env, runs, prefs_file, factsVars, recipes, prefs, walk, written, exitStatus, menuOps, genIdx, app_name_found>>

AfterHandler(r) ==
    /\ recipes' = r.recipes
    /\ walk' = r.walk
    /\ app_name_found' = r.app_name
    /\ CASE r.outcome = "ok" -> pc' = "select" /\ UNCHANGED <<exitCode, fatal>>
         [] r.outcome = "error" -> RaiseError(r.tag)
         [] r.outcome = "traceback" -> pc' = "Traceback" /\ UNCHANGED <<exitCode, fatal>>
    /\ UNCHANGED <<env, runs, prefs_file, factsVars, prefs, handlersRun, written, exitStatus, menuOps, genIdx>>

HandleApp ==
    /\ pc = "handle_app"
    /\ AfterHandler(handle_app_input(input_path_of(env), recipes, env.include_existing, prefs, env))

HandleRecipe ==
    /\ pc = "handle_recipe"
    /\ AfterHandler(handle_recipe_input(handlersRun[1], recipes, env.include_existing, env))

buildable_count(recs) == Cardinality({k \in Kinds : recs[k].buildable})

\* select_recipes_to_generate, up to the menu
SelectStart ==
    /\ pc = "select"
    /\ IF buildable_count(recipes) < 1
         THEN IF robo_print_exits("error")
                THEN RaiseError("NoBuildableRecipes")
                ELSE pc' = "menu" /\ fatal' = "NoBuildableRecipes" /\ UNCHANGED exitCode
         ELSE pc' = "menu" /\ UNCHANGED <<exitCode, fatal>>
    /\ UNCHANGED <<env, runs, prefs_file, factsVars, recipes, prefs, handlersRun, walk, written, exitStatus, menuOps, genIdx, app_name_found>>

MenuFrame == UNCHANGED <<env, runs, prefs_file, factsVars, prefs, handlersRun, walk, written, exitStatus, genIdx, app_name_found>>

MenuSave ==
    /\ pc = "menu"
    /\ pc' = "generate"
    /\ UNCHANGED <<recipes, exitCode, fatal, menuOps>>
    /\ MenuFrame

MenuSetAll(value) ==
    /\ pc = "menu"
    /\ menuOps < MaxMenuOps
    /\ menuOps' = menuOps + 1
    /\ recipes' = [k \in Kinds |-> [recipes[k] EXCEPT !.selected = value]]
    /\ UNCHANGED <<pc, exitCode, fatal>>
    /\ MenuFrame

MenuQuit ==
    /\ pc = "menu"
    /\ pc' = "SystemExit"
    /\ exitCode' = 0
    /\ UNCHANGED <<recipes, fatal, menuOps>>
    /\ MenuFrame

\* recipes[int(choice)]: a negative index counts from the end
PythonIndex(n) == IF n < 0 THEN NumKinds + n + 1 ELSE n + 1

MenuToggle(choice) ==
    /\ pc = "menu"
    /\ IF PythonIndex(choice) \in 1..NumKinds
         THEN /\ menuOps < MaxMenuOps
              /\ menuOps' = menuOps + 1
              /\ recipes' = [recipes EXCEPT ![init_recipes_names[PythonIndex(choice)]].selected = ~@]
              /\ UNCHANGED <<pc, exitCode, fatal>>
         ELSE /\ robo_print_exits("error")
              /\ RaiseError("InvalidOption")
              /\ UNCHANGED <<recipes, menuOps>>
    /\ MenuFrame

generate_writes_selected_only(recipe) == recipe.selected = TRUE

generate_writes(recipe) == recipe.preferred = TRUE /\ recipe.buildable = TRUE /\ recipe.selected = TRUE

\* generate_selected_recipes: one pass of its loop
GenerateStep ==
    /\ pc = "generate"
    /\ genIdx <= NumKinds
    /\ LET recipe == recipes[init_recipes_names[genIdx]]
       IN  IF generate_writes(recipe)
             THEN IF create_dest_dirs_fails(env) /\ robo_print_exits("error")
                    THEN /\ RaiseError("MkdirFailed")
                         /\ UNCHANGED <<written, prefs, genIdx>>
                    ELSE /\ written' = written \cup {[kind |-> recipe.name, keys |-> recipe.keys]}
                         /\ prefs' = [prefs EXCEPT !.RecipeCreateCount = @ + 1]
                         /\ genIdx' = genIdx + 1
                         /\ UNCHANGED <<pc, exitCode, fatal>>
             ELSE /\ genIdx' = genIdx + 1
                  /\ UNCHANGED <<pc, exitCode, fatal, written, prefs>>
    /\ UNCHANGED <<env, runs, prefs_file, factsVars, recipes, handlersRun, walk, exitStatus, menuOps, app_name_found>>

\* congratulate, and main returns
Congratulate ==
    /\ pc = "generate"
    /\ genIdx > NumKinds
    /\ pc' = "terminated"
    /\ exitStatus' = 0
    /\ UNCHANGED <<env, runs, prefs_file, factsVars, recipes, prefs, handlersRun, walk, written, exitCode, fatal, menuOps, genIdx, app_name_found>>

MainExcept ==
    /\ pc = "SystemExit"
    /\ pc' = "terminated"
    /\ exitStatus' = main_except_status(exitCode)
    /\ UNCHANGED <<env, runs, prefs_file, factsVars, recipes, prefs, handlersRun, walk, written, exitCode, fatal, menuOps, genIdx, app_name_found>>

\* an exception that main does not catch: the interpreter prints the
\* traceback and ends with status 1
Uncaught ==
    /\ pc = "Traceback"
    /\ pc' = "terminated"
    /\ exitStatus' = 1
    /\ UNCHANGED <<env, runs, prefs_file, factsVars, recipes, prefs, handlersRun, walk, written, exitCode, fatal, menuOps, genIdx, app_name_found>>

Next ==
    \/ InitPrefs
    \/ Dispatch
    \/ HandleApp
    \/ HandleRecipe
    \/ SelectStart
    \/ MenuSave
    \/ \E value \in BOOLEAN : MenuSetAll(value)
    \/ MenuQuit
    \/ \E choice \in (0 - NumKinds - 1)..NumKinds : MenuToggle(choice)
    \/ GenerateStep
    \/ Congratulate
    \/ MainExcept
    \/ Uncaught

(***************************************************************************)
(* The worlds a run is checked in: a default world, varied along one group *)
(* of answers at a time.                                                   *)
(***************************************************************************)
DefaultPrefix == "com.github.homebysix"

Foo == <<"Foo">>

\* a name with two search variants: "Foo Bar" and "FooBar"
FooBar == <<"Foo", " ", "Bar">>

AppPath == <<"/", "Applications", "/", "Foo", ".app">>

RecipePath(kind) == <<"/", "Foo", RecipeSuffix(kind)>>

DefaultPlist ==
    [CFBundleName |-> Foo, CFBundleExecutable |-> <<"foo">>, SUFeedURL |-> "https://example.com/appcast.xml",
     LSMinimumSystemVersion |-> "10.9", CFBundleIconFile |-> "Foo.icns", CFBundleIdentifier |-> "com.example.foo"]

RecipeFile(prefix, kind, name) ==
    [readable |-> TRUE, plist |-> [Identifier |-> Identifier(prefix, kind, name), Input |-> [NAME |-> name]], bodyFormats |-> {}]

DefaultEnv ==
    [path |-> AppPath, exists |-> TRUE, include_existing |-> FALSE, prefsChoice |-> "S", preferred |-> Kinds,
     prefix |-> DefaultPrefix, plistReadable |-> TRUE, plist |-> DefaultPlist, curl |-> "zip", description |-> "A description.",
     codesign |-> [signed |-> TRUE, reqs |-> <<"identifier com.example.foo">>], search |-> [failing |-> {}, out |-> {}],
     destDirExists |-> TRUE, mkdirOk |-> TRUE, pngExists |-> FALSE, sipsOk |-> TRUE,
     file |-> RecipeFile("com.github.autopkg", "download", Foo)]

\* the input paths of the classification
UrlTails == {".app", ".download.recipe", ".dmg"}

InputPaths ==
    {<<"http", "://", host, "/", "Foo", tail>> : host \in {"github.com", "sourceforge.com", "example.com"}, tail \in UrlTails}
    \cup {<<"ftp", "://", "example.com", "/", "Foo", tail>> : tail \in UrlTails}
    \cup {<<"/", "Foo", tail>> : tail \in {".app", ".dmg"} \cup {RecipeSuffix(k) : k \in Kinds}}
    \cup {<<"http", "ie", tail>> : tail \in {".app", ".pkg.recipe"}}
    \cup {<<"ftp", "client", ".app">>, <<"/", "Foo", ".app", "/">>, <<"/", "Foo", ".munki.recipe", " ">>}

KindOfPath(path) == IF \E k \in Kinds : endswith(rstrip(path), RecipeSuffix(k))
                      THEN CHOOSE k \in Kinds : endswith(rstrip(path), RecipeSuffix(k))
                      ELSE "download"

PathWorlds ==
    {[DefaultEnv EXCEPT !.path = p, !.exists = x, !.file = RecipeFile("com.github.autopkg", KindOfPath(p), Foo)] :
        p \in InputPaths, x \in BOOLEAN}

\* preferred kinds, existing recipes, --include-existing
SmallSubsets(n) == {S \in SUBSET Kinds : Cardinality(S) <= n}

SearchOut(found, name) == {[name |-> name, kind |-> k] : k \in found}

ResolveWorlds ==
    {[DefaultEnv EXCEPT !.path = p, !.include_existing = ie, !.preferred = Kinds \ U,
                        !.search = [failing |-> {}, out |-> SearchOut(X, Foo)],
                        !.file = RecipeFile(DefaultPrefix, KindOfPath(p), Foo)] :
        p \in {AppPath, RecipePath("download"), RecipePath("jss")}, ie \in BOOLEAN,
        U \in SmallSubsets(MaxUnpreferred) \cup {Kinds}, X \in SmallSubsets(MaxExisting) \cup {Kinds}}

\* the application bundle and the commands run on it
Plists ==
    {[k \in (DOMAIN DefaultPlist) \ D |-> DefaultPlist[k]] : D \in SUBSET {"SUFeedURL", "CFBundleName", "CFBundleIconFile"}}
    \cup {("SUOriginalFeedURL" :> "https://example.com/original.xml") @@ [k \in (DOMAIN DefaultPlist) \ D |-> DefaultPlist[k]] :
            D \in {{"SUFeedURL"}, {}}}
    \cup {[DefaultPlist EXCEPT !.SUFeedURL = ""]}

\* the name fields of Info.plist: absent, empty or set, and names with
\* whitespace and symbols
NamePlists ==
    {[k \in DOMAIN N |-> N[k]] @@ [k \in (DOMAIN DefaultPlist) \ {"CFBundleName", "CFBundleExecutable"} |-> DefaultPlist[k]] :
        N \in {EmptyDict, [CFBundleName |-> EmptyString], [CFBundleName |-> Foo],
                [CFBundleExecutable |-> EmptyString], [CFBundleExecutable |-> <<"foo">>],
                [CFBundleName |-> EmptyString, CFBundleExecutable |-> EmptyString],
                [CFBundleName |-> EmptyString, CFBundleExecutable |-> <<"foo">>],
                [CFBundleName |-> Foo, CFBundleExecutable |-> EmptyString],
                [CFBundleName |-> <<"Foo", "-", "Bar">>], [CFBundleName |-> <<"Foo", " ", "-", "Bar">>],
                [CFBundleName |-> <<"-">>], [CFBundleName |-> <<" ", "Foo">>]}}

CurlAnswers == {"raise", "fail", "exe"} \cup {all_supported_formats[i] : i \in 1..Len(all_supported_formats)}

CodesignAnswers == {[signed |-> FALSE, reqs |-> EmptyString], [signed |-> TRUE, reqs |-> EmptyString], DefaultEnv.codesign}

AppWorlds ==
    {[DefaultEnv EXCEPT !.plist = pl, !.curl = c, !.codesign = cs] :
        pl \in Plists, c \in {"zip", "dmg", "raise"}, cs \in CodesignAnswers}
    \cup {[DefaultEnv EXCEPT !.curl = c, !.codesign = cs, !.prefix = px] : c \in CurlAnswers, cs \in CodesignAnswers, px \in {DefaultPrefix, "com.example"}}
    \cup {[DefaultEnv EXCEPT !.plistReadable = r, !.sipsOk = so, !.pngExists = pe, !.destDirExists = de, !.mkdirOk = mo,
                             !.search = [failing |-> F, out |-> {}], !.prefsChoice = pc_] :
            r \in BOOLEAN, so \in BOOLEAN, pe \in BOOLEAN, de \in BOOLEAN, mo \in BOOLEAN, F \in {{}, {Foo}}, pc_ \in {"S", "Q"}}
    \cup {[DefaultEnv EXCEPT !.plist = [k \in (DOMAIN DefaultPlist) \ {"CFBundleIconFile"} |-> DefaultPlist[k]],
                             !.destDirExists = de, !.mkdirOk = mo] : de \in BOOLEAN, mo \in BOOLEAN}
    \cup {[DefaultEnv EXCEPT !.plist = [DefaultPlist EXCEPT !.CFBundleName = FooBar],
                             !.search = [failing |-> F, out |-> SearchOut(X, <<"Foo", "Bar">>)]] :
            F \in SUBSET {FooBar, <<"Foo", "Bar">>}, X \in {{}, {"munki"}}}
    \cup {[DefaultEnv EXCEPT !.plist = pl] : pl \in NamePlists}
    \cup {[DefaultEnv EXCEPT !.search = [failing |-> {}, out |-> SearchOut(X, Foo) \cup SearchOut(Y, <<"Super", "Foo">>) \cup SearchOut(Z, <<"Bar">>)]] :
            X \in {{}, {"pkg"}}, Y \in {{}, {"munki"}}, Z \in {{}, {"jss"}}}

\* the input recipe
RecipeFiles(kind) ==
    {[RecipeFile(px, kind, Foo) EXCEPT !.bodyFormats = B] :
        px \in {DefaultPrefix, "com.github.autopkg"}, B \in {{}, {"dmg"}, {"gzip"}, {"mpkg"}, {"dmg", "zip"}}}
    \cup {[RecipeFile(DefaultPrefix, kind, Foo) EXCEPT !.readable = FALSE],
          [RecipeFile(DefaultPrefix, kind, Foo) EXCEPT !.plist = [Input |-> [NAME |-> Foo]]],
          [RecipeFile(DefaultPrefix, kind, Foo) EXCEPT !.plist = [Identifier |-> Identifier(DefaultPrefix, kind, Foo)]]}

RecipeWorldsOf(k) ==
    {[DefaultEnv EXCEPT !.path = RecipePath(k), !.file = f, !.search = [failing |-> F, out |-> {}]] :
        f \in RecipeFiles(k), F \in {{}, {Foo}}}

RecipeWorlds == UNION {RecipeWorldsOf(k) : k \in {"download", "munki", "pkg"}}

Worlds == PathWorlds \cup ResolveWorlds \cup AppWorlds \cup RecipeWorlds

Init ==
    /\ env \in Worlds
    /\ pc = "init_prefs"
    /\ recipes = init_recipes
    /\ prefs = [RecipeCreateCount |-> 0, RecipeIdentifierPrefix |-> "", RecipeCreateLocation |-> ""]
    /\ handlersRun = <<>>
    /\ walk = <<>>
    /\ written = {}
    /\ exitCode = -1
    /\ exitStatus = -1
    /\ fatal = "none"
    /\ menuOps = 0
    /\ genIdx = 1
    /\ app_name_found = EmptyString
    /\ runs = <<>>
    /\ prefs_file = NoFile
    /\ FactsInit

Spec == Init /\ [][Next]_vars

(***************************************************************************)
(* create_buildable_recipe_list on its own: every combination of the       *)
(* preferred and existing flags of a freshly initialised kind set.         *)
(***************************************************************************)
InitBuildable ==
    /\ env \in {[DefaultEnv EXCEPT !.include_existing = ie] : ie \in BOOLEAN}
    /\ pc = "resolve"
    /\ \E P \in SUBSET Kinds, X \in SUBSET Kinds :
          recipes = [k \in Kinds |-> [init_recipes[k] EXCEPT !.preferred = (k \in P), !.existing = (k \in X)]]
    /\ prefs = [RecipeCreateCount |-> 0, RecipeIdentifierPrefix |-> DefaultPrefix, RecipeCreateLocation |-> "RecipeOverrides"]
    /\ handlersRun = <<>>
    /\ walk = <<>>
    /\ written = {}
    /\ exitCode = -1
    /\ exitStatus = -1
    /\ fatal = "none"
    /\ menuOps = 0
    /\ genIdx = 1
    /\ app_name_found = Foo
    /\ runs = <<>>
    /\ prefs_file = NoFile
    /\ FactsInit

ResolveBuildable ==
    /\ pc = "resolve"
    /\ recipes' = create_buildable_recipe_list(recipes, env.include_existing)
    /\ pc' = "resolved"
    /\ UNCHANGED <<env, runs, prefs_file, factsVars, prefs, handlersRun, walk, written, exitCode, exitStatus, fatal, menuOps, genIdx, app_name_found>>

NextBuildable == ResolveBuildable

SpecBuildable == InitBuildable /\ [][NextBuildable]_vars

(***************************************************************************)
(* handle_app_input twice on the same bundle, one process after the other: *)
(* each run starts from init_recipes and the preferred flags of the        *)
(* preferences, and finds the files that the run before it left.           *)
(***************************************************************************)
FreshRecipes(e) == [k \in Kinds |-> [init_recipes[k] EXCEPT !.preferred = (k \in e.preferred)]]

\* the loop of handle_app_input called extract_app_icon at least once
icon_extraction_attempted(r, F) ==
    /\ r.tag \in {"none", "IconFailed"}
    /\ F.icon_path # EmptyString
    /\ \E k \in {"munki", "jss"} : r.recipes[k].buildable

\* the file system after a run with result r: create_dest_dirs has made the
\* directory, and sips the png, when they were called and did not fail
world_after_app(e, r, F) ==
    [e EXCEPT !.destDirExists = @ \/ (icon_extraction_attempted(r, F) /\ e.mkdirOk),
              !.pngExists = @ \/ (icon_extraction_attempted(r, F) /\ ~extract_app_icon_fails(e, FALSE))]

InitTwice ==
    /\ env \in {e \in AppWorlds \cup ResolveWorlds : e.path = AppPath /\ e.prefsChoice = "S" /\ e.plistReadable}
    /\ pc = "run_app"
    /\ recipes = FreshRecipes(env)
    /\ prefs = [RecipeCreateCount |-> 0, RecipeIdentifierPrefix |-> env.prefix, RecipeCreateLocation |-> "RecipeOverrides"]
    /\ handlersRun = <<>>
    /\ walk = <<>>
    /\ written = {}
    /\ exitCode = -1
    /\ exitStatus = -1
    /\ fatal = "none"
    /\ menuOps = 0
    /\ genIdx = 1
    /\ app_name_found = EmptyString
    /\ runs = <<>>
    /\ prefs_file = NoFile
    /\ FactsInit

RunApp ==
    /\ pc = "run_app"
    /\ LET F == app_facts(env.plist, input_path_of(env), prefs, env)
           r == handle_app_input(input_path_of(env), FreshRecipes(env), env.include_existing, prefs, env)
       IN  /\ runs' = Append(runs, [world |-> env, facts |-> F, result |-> r])
           /\ env' = world_after_app(env, r, F)
           /\ recipes' = r.recipes
           /\ walk' = r.walk
           /\ app_name_found' = r.app_name
           /\ fatal' = r.tag
    /\ handlersRun' = <<"app">>
    /\ pc' = IF Len(runs) = 0 THEN "run_app" ELSE "compared"
    /\ UNCHANGED <<prefs, written, exitCode, exitStatus, menuOps, genIdx, prefs_file, factsVars>>

NextTwice == RunApp

SpecTwice == InitTwice /\ [][NextTwice]_vars

(***************************************************************************)
(* The run with the user's interrupt: KeyboardInterrupt is raised wherever *)
(* main is, and main's "except (KeyboardInterrupt, SystemExit)" takes it.  *)
(***************************************************************************)
Interrupt ==
    /\ pc \in {"init_prefs", "dispatch", "handle_app", "handle_recipe", "select", "menu", "generate"}
    /\ pc' = "SystemExit"
    /\ fatal' = "KeyboardInterrupt"
    /\ UNCHANGED <<env, runs, prefs_file, factsVars, recipes, prefs, handlersRun, walk, written, exitCode, exitStatus, menuOps, genIdx, app_name_found>>

NextInterrupt == Next \/ Interrupt

SpecInterrupt == Init /\ [][NextInterrupt]_vars

(***************************************************************************)
(* A Facts object and its lists in use: the calls a client can make, in    *)
(* any order.                                                              *)
(***************************************************************************)
ListKeys == {"recipes", "errors"}

ListValues == {PyStr("a"), PyStr("b"), PyUnicode("Caf\\xe9")}

FactKeys == {"errors", "is_signed"}

FactValues == {PyStr("Foo"), PyUnicode("Caf\\xe9"), PyBool("True"), PyList(<<>>), PyList(<<PyStr("a")>>)}

FactsFrame ==
    UNCHANGED <<pc, env, recipes, prefs, handlersRun, walk, written, exitCode, exitStatus, fatal, menuOps, genIdx,
                app_name_found, runs, prefs_file>>

IsList(key) == key \in DOMAIN facts /\ facts[key].cls \in ListClasses

\* the state after a call on the list facts[key]
AfterCall(key, call) ==
    /\ facts' = [facts EXCEPT ![key] = call.self]
    /\ posted' = posted \o call.sent.posted
    /\ printed' = printed \o call.sent.printed
    /\ stored' = stored + call.stored
    /\ FactsFrame

ListInsert(key, index, item) ==
    /\ IsList(key)
    /\ index \in 0..Len(facts[key].items)
    /\ Len(facts[key].items) < MaxListLen
    /\ stored < MaxStored
    /\ AfterCall(key, list_insert(facts[key], index, item))

ListAppend(key, value) ==
    /\ IsList(key)
    /\ Len(facts[key].items) < MaxListLen
    /\ stored < MaxStored
    /\ AfterCall(key, list_append(facts[key], value))

ListExtend(key, values) ==
    /\ IsList(key)
    /\ Len(facts[key].items) + Len(values) <= MaxListLen
    /\ stored + Len(values) <= MaxStored
    /\ AfterCall(key, list_extend(facts[key], values))

ListSetItem(key, index, val) ==
    /\ IsList(key)
    /\ index \in 0..(Len(facts[key].items) - 1)
    /\ stored < MaxStored
    /\ AfterCall(key, list_setitem(facts[key], index, val))

ListDelItem(key, index) ==
    /\ IsList(key)
    /\ index \in 0..(Len(facts[key].items) - 1)
    /\ AfterCall(key, list_delitem(facts[key], index))

\* pop(): the last item
ListPop(key) ==
    /\ IsList(key)
    /\ facts[key].items # <<>>
    /\ AfterCall(key, list_pop(facts[key], Len(facts[key].items) - 1))

FactsSetItem(key, val) ==
    /\ Len(posted) < MaxPosted
    /\ LET call == facts_setitem(val)
       IN  /\ facts' = IF call.raised THEN facts ELSE SetKey(facts, key, call.self)
           /\ posted' = posted \o call.sent.posted
           /\ printed' = printed \o call.sent.printed
    /\ UNCHANGED stored
    /\ FactsFrame

\* Facts.__delitem__: nothing happens for a key that is not there
FactsDelItem(key) ==
    /\ facts' = [k \in (DOMAIN facts) \ {key} |-> facts[k]]
    /\ UNCHANGED <<posted, printed, stored>>
    /\ FactsFrame

InitFacts ==
    /\ env = DefaultEnv
    /\ pc = "facts"
    /\ recipes = init_recipes
    /\ prefs = [RecipeCreateCount |-> 0, RecipeIdentifierPrefix |-> "", RecipeCreateLocation |-> ""]
    /\ handlersRun = <<>>
    /\ walk = <<>>
    /\ written = {}
    /\ exitCode = -1
    /\ exitStatus = -1
    /\ fatal = "none"
    /\ menuOps = 0
    /\ genIdx = 1
    /\ app_name_found = EmptyString
    /\ runs = <<>>
    /\ prefs_file = NoFile
    /\ FactsInit

NextList ==
    \/ \E key \in ListKeys, value \in ListValues : ListAppend(key, value)
    \/ \E key \in ListKeys, item \in ListValues, index \in 0..MaxListLen : ListInsert(key, index, item)
    \/ \E key \in ListKeys, v1 \in ListValues, v2 \in ListValues : ListExtend(key, <<v1, v2>>)
    \/ \E key \in ListKeys, val \in ListValues, index \in 0..MaxListLen : ListSetItem(key, index, val)
    \/ \E key \in ListKeys : ListPop(key)
    \/ \E key \in ListKeys, index \in 0..MaxListLen : ListDelItem(key, index)

SpecList == InitFacts /\ [][NextList]_vars

NextFacts ==
    \/ NextList
    \/ \E key \in FactKeys, val \in FactValues : FactsSetItem(key, val)
    \/ \E key \in FactKeys : FactsDelItem(key)

SpecFacts == InitFacts /\ [][NextFacts]_vars

(***************************************************************************)
(* init_prefs and build_prefs on the preferences file.  A plist is a       *)
(* function from keys to values; an answer of the user is the prefix, the  *)
(* location and the keys typed in the menu of recipe types.                *)
(***************************************************************************)
version == "0.0.2"

RECURSIVE rstrip_chars(_, _)
rstrip_chars(s, chars) == IF s # <<>> /\ s[Len(s)] \in chars THEN rstrip_chars(SubSeq(s, 1, Len(s) - 1), chars) ELSE s

upper(choice) ==
    CASE choice = "s" -> "S"
      [] choice = "a" -> "A"
      [] choice = "d" -> "D"
      [] choice = "q" -> "Q"
      [] OTHER -> choice

Digits == <<"0", "1", "2", "3", "4", "5", "6", "7", "8", "9">>

\* int(choice) for one digit; -1 stands for the ValueError of another text
int(choice) == IF \E d \in 1..Len(Digits) : Digits[d] = choice THEN (CHOOSE d \in 1..Len(Digits) : Digits[d] = choice) - 1 ELSE -1

\* the while loop of build_prefs from key i on: the recipes, and how it
\* ended ("S" saved, "Q" left by sys.exit(0))
RECURSIVE prefs_menu(_, _, _)
prefs_menu(recs, typed, i) ==
    LET choice == typed[i]
    IN  IF upper(choice) = "S" THEN [recipes |-> recs, ended |-> "S"]
        ELSE IF upper(choice) = "A" THEN prefs_menu([k \in Kinds |-> [recs[k] EXCEPT !.preferred = TRUE]], typed, i + 1)
        ELSE IF upper(choice) = "D" THEN prefs_menu([k \in Kinds |-> [recs[k] EXCEPT !.preferred = FALSE]], typed, i + 1)
        ELSE IF upper(choice) = "Q" THEN [recipes |-> recs, ended |-> "Q"]
        ELSE IF int(choice) \in 0..(NumKinds - 1)
               THEN prefs_menu([recs EXCEPT ![init_recipes_names[int(choice) + 1]].preferred = ~@], typed, i + 1)
               ELSE prefs_menu(recs, typed, i + 1)

preferred_names(recs) == SelectSeq(init_recipes_names, LAMBDA k : recs[k].preferred)

\* build_prefs: the preferences and the recipes it leaves, or quit
build_prefs(prefs_in, recs, answer) ==
    LET p1 == SetKey(prefs_in, "RecipeCreateCount", 0)
        p2 == SetKey(p1, "RecipeIdentifierPrefix",
                     IF answer.prefix # EmptyString THEN rstrip_chars(answer.prefix, {".", " "}) ELSE <<"com.github.homebysix">>)
        p3 == SetKey(p2, "RecipeCreateLocation",
                     IF answer.location # EmptyString THEN rstrip_chars(answer.location, {"/", " "}) ELSE <<"~/Library/AutoPkg/RecipeOverrides">>)
        menu == prefs_menu(recs, answer.typed, 1)
    IN  [prefs |-> SetKey(p3, "RecipeTypes", preferred_names(menu.recipes)),
         recipes |-> menu.recipes,
         quit |-> menu.ended = "Q"]

default_prefs == [input_path |-> EmptyString, identifier_prefix |-> EmptyString, recipe_types |-> <<>>, output_dir |-> EmptyString]

InSeq(x, s) == \E i \in 1..Len(s) : s[i] = x

\* init_prefs, whole: file is the preferences file before the call (NoFile
\* when there is none), readOk whether readPlist can read it, answers the
\* answers given to the calls of build_prefs in order.  The result has the
\* preferences, the recipes, the file afterwards, the number of calls of
\* build_prefs and whether sys.exit(0) left the function.
init_prefs(file, readOk, recs, config, answers) ==
    LET first == IF config THEN build_prefs(default_prefs, recs, answers[1])
                           ELSE [prefs |-> default_prefs, recipes |-> recs, quit |-> FALSE]
        calls1 == IF config THEN 1 ELSE 0
        Quit(r, calls) == [prefs |-> r.prefs, recipes |-> r.recipes, file |-> file, calls |-> calls, quit |-> TRUE]
        Done(r, calls) == [prefs |-> SetKey(r.prefs, "LastRecipeRobotVersion", version), recipes |-> r.recipes,
                           file |-> SetKey(r.prefs, "LastRecipeRobotVersion", version), calls |-> calls, quit |-> FALSE]
    IN  IF first.quit THEN Quit(first, calls1)
        ELSE IF file # NoFile /\ readOk /\ HasKey(file, "recipe_types")
               THEN Done([prefs |-> file,
                          recipes |-> [k \in Kinds |-> [first.recipes[k] EXCEPT !.preferred = InSeq(k, file["recipe_types"])]]],
                         calls1)
               ELSE LET again == build_prefs(IF file # NoFile /\ readOk THEN file ELSE first.prefs, first.recipes, answers[calls1 + 1])
                    IN  IF again.quit THEN Quit(again, calls1 + 1) ELSE Done(again, calls1 + 1)

(***************************************************************************)
(* The specification of init_prefs over consecutive runs of the program.   *)
(* Each run starts from init_recipes and the preferences file the runs     *)
(* before have left; runs keeps one record for each run.                   *)
(***************************************************************************)
MaxRuns == 2

TypedKeys == {<<"S">>, <<"D", "0", "s">>, <<"1", "S">>, <<"a", "7", "S">>, <<"8", "x", "S">>, <<"3", "q">>}

Answers ==
    {[prefix |-> a[1], location |-> a[2], typed |-> typed] :
        a \in {<<EmptyString, EmptyString>>, <<<<"com.example", ".">>, <<"~/recipes", "/">>>>}, typed \in TypedKeys}

PrefsFrame == UNCHANGED <<env, factsVars, handlersRun, walk, written, exitStatus, fatal, menuOps, genIdx, app_name_found>>

RunInitPrefs ==
    /\ pc = "prefs_run"
    /\ Len(runs) < MaxRuns
    /\ \E config \in BOOLEAN, readOk \in BOOLEAN, answers \in [1..2 -> Answers] :
         LET r == init_prefs(prefs_file, readOk, init_recipes, config, answers)
         IN  /\ prefs' = r.prefs
             /\ recipes' = r.recipes
             /\ prefs_file' = r.file
             /\ exitCode' = IF r.quit THEN 0 ELSE exitCode
             /\ runs' = Append(runs, [config |-> config, readOk |-> readOk, file |-> prefs_file, calls |-> r.calls,
                                      quit |-> r.quit, preferred |-> {k \in Kinds : r.recipes[k].preferred}])
    /\ pc' = "prefs_run"
    /\ PrefsFrame

InitRuns ==
    /\ env = DefaultEnv
    /\ pc = "prefs_run"
    /\ recipes = init_recipes
    /\ prefs = default_prefs
    /\ handlersRun = <<>>
    /\ walk = <<>>
    /\ written = {}
    /\ exitCode = -1
    /\ exitStatus = -1
    /\ fatal = "none"
    /\ menuOps = 0
    /\ genIdx = 1
    /\ app_name_found = EmptyString
    /\ runs = <<>>
    /\ prefs_file = NoFile
    /\ FactsInit

NextPrefs == RunInitPrefs

SpecPrefs == InitRuns /\ [][NextPrefs]_vars

(***************************************************************************)
(* Properties.                                                             *)
(***************************************************************************)
\* the loop of a handler over the recipes has run to its end
Synthesized == Len(walk) = NumKinds

\* C1: after create_buildable_recipe_list on a freshly initialised kind set,
\* a kind is buildable if and only if it is preferred and not existing, or
\* include-existing is set and it is preferred.
C1_BuildableIff ==
    pc = "resolved" =>
        \A k \in Kinds :
            recipes[k].buildable <=> ((recipes[k].preferred /\ ~recipes[k].existing) \/ (env.include_existing /\ recipes[k].preferred))

C1_Witness ==
    /\ pc = "resolved"
    /\ ~env.include_existing
    /\ recipes["munki"].preferred /\ recipes["munki"].existing /\ ~recipes["munki"].buildable
    /\ recipes["pkg"].preferred /\ ~recipes["pkg"].existing /\ recipes["pkg"].buildable
    /\ ~recipes["ds"].preferred /\ ~recipes["ds"].buildable

\* C2: the walk over the registry takes every kind after its parent kind:
\* when a kind with a parent has been visited, its parent was visited at an
\* earlier position of the same walk.
C2_ParentBeforeChild ==
    \A i \in 1..Len(walk) :
        HasParentKind(walk[i]) => \E j \in 1..(i - 1) : walk[j] = ParentKind(walk[i])

C2_Witness ==
    /\ handlersRun = <<"app">>
    /\ pc = "select"
    /\ Len(walk) = NumKinds
    /\ recipes["pkg"].buildable /\ recipes["jss"].buildable /\ recipes["download"].buildable
    /\ HasKey(recipes["jss"].keys, "Description") /\ HasKey(recipes["pkg"].keys, "Description")

\* C3: after synthesis by the application handler or a recipe handler, the
\* document of every buildable kind that has a parent kind has ParentRecipe
\* equal to <prefix>.<parent kind>.<subject name>.
C3_ParentRecipeWellFormed ==
    (Synthesized /\ handlersRun # <<>> /\ handlersRun[1] \in Kinds \cup {"app"}) =>
        \A k \in Kinds :
            (HasParentKind(k) /\ recipes[k].buildable) =>
                /\ HasKey(recipes[k].keys, "ParentRecipe")
                /\ recipes[k].keys["ParentRecipe"] = Identifier(prefs.RecipeIdentifierPrefix, ParentKind(k), app_name_found)

\* C4: after synthesis a document has a ParentRecipe key only if its kind has
\* a parent kind and the kind or its parent is buildable in this run, and the
\* document of a buildable kind with a parent has the key; the download
\* document never has it, whatever the input.
C4_ParentRecipeIffParent ==
    Synthesized =>
        /\ ~HasKey(recipes["download"].keys, "ParentRecipe")
        /\ \A k \in Kinds :
              /\ HasKey(recipes[k].keys, "ParentRecipe") =>
                    (HasParentKind(k) /\ (recipes[k].buildable \/ recipes[ParentKind(k)].buildable))
              /\ (HasParentKind(k) /\ recipes[k].buildable) => HasKey(recipes[k].keys, "ParentRecipe")

\* C5: every document written has Input.NAME equal to the subject name and
\* Identifier equal to <prefix>.<kind>.<subject name>, never empty.
C5_EmittedIdentifier ==
    \A w \in written :
        /\ HasKey(w.keys.Input, "NAME") /\ w.keys.Input["NAME"] = app_name_found
        /\ w.keys.Identifier # EmptyString
        /\ w.keys.Identifier = Identifier(prefs.RecipeIdentifierPrefix, w.kind, app_name_found)

\* main has gone through the classification of lines 1966-2001
Classified == pc \notin {"init_prefs", "dispatch"} /\ env.prefsChoice # "Q"

\* C6: once the input is classified, exactly one handler has been invoked,
\* or none and the run failed on the input.
C6_ExactlyOneHandler ==
    Classified =>
        \/ Len(handlersRun) = 1
        \/ handlersRun = <<>> /\ fatal \in {"UnrecognizedInput", "PathDoesNotExist"}

\* C7: an existing input path that ends in .app is handled as an application
\* bundle, and one that ends in .<kind>.recipe as a recipe of that kind,
\* whatever the path begins with.
C7_SuffixBeforeScheme ==
    (Classified /\ env.exists) =>
        /\ endswith(input_path_of(env), ".app") => handlersRun = <<"app">>
        /\ \A k \in Kinds : endswith(input_path_of(env), RecipeSuffix(k)) => handlersRun = <<k>>

FatalConditions == {"UnrecognizedInput", "PathDoesNotExist", "InvalidApp", "NoBuildableRecipes"}

\* C8: when the input is not recognised, the bundle's Info.plist cannot be
\* read or no kind is buildable, the run is over at that point and no recipe
\* has been written.
C8_FatalWritesNothing ==
    fatal \in FatalConditions => (pc \in {"SystemExit", "terminated"} /\ written = {} /\ prefs.RecipeCreateCount = 0)

C8_Witness ==
    /\ fatal = "NoBuildableRecipes"
    /\ handlersRun = <<"app">>
    /\ pc = "terminated"
    /\ \E k \in Kinds : recipes[k].preferred /\ recipes[k].existing

\* C9: a run in which robo_print("error", ...) was reached ends with a
\* non-zero exit status.
C9_FatalExitsNonZero ==
    (pc = "terminated" /\ fatal # "none") => exitStatus # 0

NoFeed(e) ==
    /\ PlistGet(e.plist, "SUFeedURL", "") = ""
    /\ PlistGet(e.plist, "SUOriginalFeedURL", "") = ""

NoFeedCase ==
    /\ handlersRun = <<"app">>
    /\ pc \notin {"dispatch", "handle_app"}
    /\ env.plistReadable
    /\ NoFeed(env)
    /\ env.search.failing = {}

IsAcquisition(step) == step.Processor \in {"SparkleUpdateInfoProvider", "GitHubReleasesInfoProvider"}

SearchCase ==
    /\ handlersRun # <<>>
    /\ pc \notin {"dispatch", "handle_app", "handle_recipe"}
    /\ \/ handlersRun = <<"app">> /\ env.plistReadable /\ ~env.include_existing
       \/ handlersRun[1] \in Kinds /\ env.file.readable /\ HasKey(env.file.plist, "Input")

SearchedName == IF handlersRun = <<"app">> THEN app_name_of(env.plist, input_path_of(env)) ELSE env.file.plist["Input"]["NAME"]

\* C11: when the search command fails for a variant of the subject's name,
\* the run is not ended by it: the kinds found by the variants whose search
\* succeeded are marked existing, and every kind is resolved (buildable when
\* preferred and not existing).
C11_SearchFailureTolerated ==
    (SearchCase /\ \E i \in 1..Len(recipe_searches(SearchedName)) : recipe_searches(SearchedName)[i] \in env.search.failing) =>
        /\ fatal # "SearchFailed"
        /\ \A k \in Kinds :
              /\ recipes[k].existing <=>
                    \E i \in 1..Len(recipe_searches(SearchedName)) :
                        /\ recipe_searches(SearchedName)[i] \notin env.search.failing
                        /\ \E line \in env.search.out : recipe_name_in_line(recipe_searches(SearchedName)[i], k, line)
              /\ (recipes[k].preferred /\ ~recipes[k].existing) => recipes[k].buildable

\* a handler has acted on an input it could read, with every search answered
\* and, for a bundle, an update feed
SynthesisCase ==
    /\ SearchCase \/ (handlersRun = <<"app">> /\ pc \notin {"dispatch", "handle_app"} /\ env.plistReadable)
    /\ handlersRun[1] \in Kinds => HasKey(env.file.plist["Input"], "NAME") /\ HasKey(env.file.plist, "Identifier")
    /\ handlersRun = <<"app">> => ~NoFeed(env)
    /\ \A i \in 1..Len(recipe_searches(SearchedName)) : recipe_searches(SearchedName)[i] \notin env.search.failing

\* C12: once at least one kind is buildable, the handler returns normally:
\* its loop has taken every kind, no error and no exception has left it, and
\* for a bundle the document of every buildable kind has its Description.
C12_SynthesisReturns ==
    (SynthesisCase /\ buildable_count(recipes) >= 1) =>
        /\ Synthesized
        /\ fatal # "IconFailed"
        /\ pc # "Traceback" /\ exitStatus # 1
        /\ handlersRun = <<"app">> => \A k \in Kinds : recipes[k].buildable => HasKey(recipes[k].keys, "Description")

\* C13: a document is written only for a buildable kind: a kind that is
\* preferred and marked existing in a run without --include-existing is not
\* buildable and no document of it is written, whatever the menu did to the
\* selected flags.
C13_WrittenOnlyIfBuildable ==
    /\ \A w \in written : recipes[w.kind].buildable
    /\ \A k \in Kinds :
          (recipes[k].preferred /\ recipes[k].existing /\ ~env.include_existing) =>
              /\ ~recipes[k].buildable
              /\ \A w \in written : w.kind # k

C13_Witness ==
    /\ pc = "terminated"
    /\ ~env.include_existing
    /\ menuOps >= 1
    /\ recipes["munki"].preferred /\ recipes["munki"].existing /\ recipes["munki"].selected
    /\ \E w \in written : w.kind = "download"
    /\ \A w \in written : w.kind # "munki"

\* the application handler has run its loop to the end
AppSynthesized == handlersRun = <<"app">> /\ Synthesized

\* the download format that handle_app_input found for the bundle
ResolvedFormat == sparkle_of(env.plist, env.curl).download_format

Processors(process) == [i \in 1..Len(process) |-> process[i].Processor]

\* the positions of a processor in a Process list
PositionsOf(process, processor) == {i \in 1..Len(process) : process[i].Processor = processor}

\* the processors after the (first) EndOfCheckPhase of a Process list
AfterMarker(process) ==
    IF PositionsOf(process, "EndOfCheckPhase") = {}
      THEN <<>>
      ELSE LET m == CHOOSE i \in PositionsOf(process, "EndOfCheckPhase") : \A j \in PositionsOf(process, "EndOfCheckPhase") : i <= j
           IN  SubSeq(Processors(process), m + 1, Len(process))

VerificationProcessors == {"Unarchiver", "CodeSignatureVerifier", "PathDeleter"}

\* C14: in the download document of a bundle, what follows EndOfCheckPhase
\* is, for a code-signed bundle, Unarchiver, CodeSignatureVerifier,
\* PathDeleter (archive format), CodeSignatureVerifier alone (disk image),
\* nothing (installer package); for an unsigned bundle none of the three
\* processors is anywhere in the Process.
C14_CodeSignSteps ==
    (AppSynthesized /\ recipes["download"].buildable) =>
        LET process == recipes["download"].keys.Process
        IN  /\ (env.codesign.signed /\ InTuple(ResolvedFormat, supported_archive_formats)) =>
                  AfterMarker(process) = <<"Unarchiver", "CodeSignatureVerifier", "PathDeleter">>
            /\ (env.codesign.signed /\ InTuple(ResolvedFormat, supported_image_formats)) =>
                  AfterMarker(process) = <<"CodeSignatureVerifier">>
            /\ (env.codesign.signed /\ InTuple(ResolvedFormat, supported_install_formats)) =>
                  AfterMarker(process) = <<>>
            /\ ~env.codesign.signed => \A i \in 1..Len(process) : process[i].Processor \notin VerificationProcessors

C14_Witness ==
    /\ AppSynthesized
    /\ recipes["download"].buildable
    /\ env.codesign.signed
    /\ ResolvedFormat = "tar.gz"
    /\ Len(recipes["download"].keys.Process) = 6
    /\ recipes["download"].keys.Process[5] = Step("CodeSignatureVerifier", env.codesign.reqs)

\* C15: the download document of a bundle has exactly one URLDownloader,
\* whose filename ends in the resolved download format, one of
\* all_supported_formats; exactly one EndOfCheckPhase, right after it; every
\* acquisition step before the URLDownloader and every verification-related
\* step after the EndOfCheckPhase.
C15_FetchStep ==
    (AppSynthesized /\ recipes["download"].buildable) =>
        LET process == recipes["download"].keys.Process
        IN  /\ Cardinality(PositionsOf(process, "URLDownloader")) = 1
            /\ Cardinality(PositionsOf(process, "EndOfCheckPhase")) = 1
            /\ \A u \in PositionsOf(process, "URLDownloader") :
                  /\ process[u].Arg = <<ResolvedFormat>>
                  /\ InTuple(process[u].Arg[1], all_supported_formats)
                  /\ PositionsOf(process, "EndOfCheckPhase") = {u + 1}
                  /\ \A i \in 1..Len(process) :
                        /\ IsAcquisition(process[i]) => i < u
                        /\ process[i].Processor \in VerificationProcessors => i > u + 1

\* the download format the handler of this run works with: found from the
\* feed for a bundle, from the body of the input recipe for a recipe
HandlerFormat == IF handlersRun = <<"app">> THEN ResolvedFormat ELSE parsed_download_format(env.file.bodyFormats)

\* C16: whichever handler ran, the Process of a buildable pkg document is
\* PkgRootCreator, then AppDmgVersioner and Copier (disk image) or Unarchiver
\* and Versioner (archive) or nothing (installer, unknown), then PkgCreator.
C16_PkgProcess ==
    (SynthesisCase /\ recipes["pkg"].buildable) =>
        Processors(recipes["pkg"].keys.Process) =
            <<"PkgRootCreator">>
            \o (IF InTuple(HandlerFormat, supported_image_formats)
                  THEN <<"AppDmgVersioner", "Copier">>
                  ELSE IF InTuple(HandlerFormat, supported_archive_formats)
                         THEN <<"Unarchiver", "Versioner">>
                         ELSE <<>>)
            \o <<"PkgCreator">>

\* C17: for a bundle, the ParentRecipe of a buildable install document and of
\* a buildable ds document is <prefix>.download.<name>, and that of a
\* buildable jss, absolute or sccm document is <prefix>.pkg.<name>.
C17_IntegrationParents ==
    AppSynthesized =>
        /\ \A k \in {"install", "ds"} :
              recipes[k].buildable =>
                  /\ HasKey(recipes[k].keys, "ParentRecipe")
                  /\ recipes[k].keys["ParentRecipe"] = Identifier(prefs.RecipeIdentifierPrefix, "download", app_name_found)
        /\ \A k \in {"jss", "absolute", "sccm"} :
              recipes[k].buildable =>
                  /\ HasKey(recipes[k].keys, "ParentRecipe")
                  /\ recipes[k].keys["ParentRecipe"] = Identifier(prefs.RecipeIdentifierPrefix, "pkg", app_name_found)

\* the processor of the step that the recipe class of a kind puts in Process
\* (JSSRecipe, AbsoluteRecipe, SCCMRecipe)
ClassProcessor(kind) ==
    CASE kind = "jss" -> "JSSImporter"
      [] kind = "absolute" -> "com.github.tburgin.AbsoluteManageExport/AbsoluteManageExport"
      [] kind = "sccm" -> "com.github.autopkg.cgerke-recipes.SharedProcessors/CmmacCreator"

\* C18: for a bundle, the Process of a buildable install, jss, absolute, sccm
\* or ds document has exactly one step, for jss, absolute and sccm the
\* importer of the kind's recipe class, whatever the format and the signing.
C18_OneIntegrationStep ==
    AppSynthesized =>
        \A k \in {"install", "jss", "absolute", "sccm", "ds"} :
            recipes[k].buildable =>
                /\ Len(recipes[k].keys.Process) = 1
                /\ k \in {"jss", "absolute", "sccm"} => recipes[k].keys.Process[1].Processor = ClassProcessor(k)

\* C19: for an input recipe whose body has .dmg</string>, the handler
\* returns and the Process of a buildable pkg document has the disk-image
\* steps AppDmgVersioner and Copier and not the archive step Unarchiver.
C19_DmgBodyTakesImagePath ==
    (SynthesisCase /\ handlersRun[1] \in Kinds /\ "dmg" \in env.file.bodyFormats /\ recipes["pkg"].buildable) =>
        /\ Synthesized
        /\ pc # "Traceback" /\ exitStatus # 1
        /\ PositionsOf(recipes["pkg"].keys.Process, "AppDmgVersioner") # {}
        /\ PositionsOf(recipes["pkg"].keys.Process, "Copier") # {}
        /\ PositionsOf(recipes["pkg"].keys.Process, "Unarchiver") = {}

\* C20: two runs of handle_app_input on the same bundle, with the same
\* answers of curl, codesign and autopkg search, each from a fresh set of
\* recipes, find the same facts and end with the same outcome and the same
\* keys for every kind.
C20_RunsAgree ==
    Len(runs) = 2 =>
        /\ runs[1].facts = runs[2].facts
        /\ runs[1].result = runs[2].result

C20_Witness ==
    /\ Len(runs) = 2
    /\ ~runs[1].world.pngExists /\ runs[2].world.pngExists
    /\ runs[1].world.plist = runs[2].world.plist
    /\ runs[2].result.outcome = "ok"
    /\ runs[2].result.recipes["munki"].buildable
    /\ Len(runs[2].result.recipes["munki"].keys.Process) = 1
    /\ runs[2].facts.download_format = "zip"

\* C21: a run ended by the user's interrupt has written no recipe.
C21_InterruptWritesNothing ==
    fatal = "KeyboardInterrupt" => written = {}

\* C22: on NotifyingLists, the number of notifications posted is the number
\* of values that __setitem__ and insert (append and extend included) have
\* put in the lists; each is posted under the message type of its list and
\* none is posted by a deletion.
C22_OneNotificationPerValue ==
    pc = "facts" =>
        /\ Len(posted) = stored
        /\ \A i \in 1..Len(posted) : posted[i].name \in {facts[k].message_type : k \in DOMAIN facts}

\* C27: a value kept by Facts is never a plain str, list or bool: what was
\* assigned as one is kept as NotifyingString, NotifyingList or
\* NotifyingBool.
C27_ValuesAreNotifying ==
    pc = "facts" => \A key \in DOMAIN facts : facts[key].cls \notin {"str", "unicode", "list", "bool"}

\* C30: the keys errors, reminders and warnings are always in Facts and
\* hold NoisyNotifyingLists.
C30_NoisyListsStay ==
    pc = "facts" =>
        \A key \in {"errors", "reminders", "warnings"} : key \in DOMAIN facts /\ facts[key].cls = "NoisyNotifyingList"

\* every search of the run was answered
AllSearched ==
    /\ SearchCase
    /\ \A i \in 1..Len(recipe_searches(SearchedName)) : recipe_searches(SearchedName)[i] \notin env.search.failing

\* C23: after create_existing_recipe_list a kind is existing if and only if
\* the result of some variant has an entry <variant>.<kind>.recipe: an entry
\* for another name or another kind does not mark it.
C23_ExistingIffEntry ==
    AllSearched =>
        \A k \in Kinds :
            recipes[k].existing <=>
                \E line \in env.search.out :
                    /\ line.kind = k
                    /\ \E i \in 1..Len(recipe_searches(SearchedName)) : line.name = recipe_searches(SearchedName)[i]

\* C24: the search variants are the name, the name without whitespace and
\* the name without non-word characters, without duplicates and without
\* empty variants: one to three entries, all different, none empty.
C24_SearchVariants ==
    SearchCase =>
        LET searches == recipe_searches(SearchedName)
        IN  /\ Len(searches) \in 1..3
            /\ \A i \in 1..Len(searches) : searches[i] # EmptyString
            /\ \A i \in 1..Len(searches), j \in 1..Len(searches) : searches[i] = searches[j] => i = j
            /\ {searches[i] : i \in 1..Len(searches)}
                 = {SearchedName, app_name_no_space(SearchedName), app_name_no_symbol(SearchedName)} \ {EmptyString}

\* C25: the name of a bundle is CFBundleName when present and not empty,
\* else CFBundleExecutable when present and not empty, else the file name of
\* the bundle without .app.
C25_NameFallback ==
    (handlersRun = <<"app">> /\ pc \notin {"dispatch", "handle_app"} /\ env.plistReadable) =>
        LET path == input_path_of(env)
        IN  IF HasKey(env.plist, "CFBundleName") /\ env.plist["CFBundleName"] # EmptyString
              THEN app_name_found = env.plist["CFBundleName"]
              ELSE IF HasKey(env.plist, "CFBundleExecutable") /\ env.plist["CFBundleExecutable"] # EmptyString
                     THEN app_name_found = env.plist["CFBundleExecutable"]
                     ELSE app_name_found = <<path[Len(path) - 1]>>

C25_Witness ==
    /\ handlersRun = <<"app">>
    /\ pc = "select"
    /\ HasKey(env.plist, "CFBundleName") /\ env.plist["CFBundleName"] = EmptyString
    /\ HasKey(env.plist, "CFBundleExecutable") /\ env.plist["CFBundleExecutable"] = <<"foo">>
    /\ app_name_found = <<"foo">>
    /\ recipes["download"].keys.Identifier = Identifier(DefaultPrefix, "download", <<"foo">>)

\* C28: synthesis leaves the document of a kind that is not buildable as
\* init_recipes made it but for Input.NAME and Identifier, whichever handler
\* ran: its Process is empty and it has no Description and no ParentRecipe.
C28_NonBuildableUntouched ==
    (Synthesized /\ handlersRun # <<>>) =>
        \A k \in Kinds :
            ~recipes[k].buildable =>
                /\ recipes[k].keys.Process = <<>>
                /\ ~HasKey(recipes[k].keys, "Description")
                /\ ~HasKey(recipes[k].keys, "ParentRecipe")
                /\ DOMAIN recipes[k].keys \subseteq {"Identifier", "MinimumVersion", "Input", "Process"}
                /\ DOMAIN recipes[k].keys.Input \subseteq {"NAME"}

\* handle_app_input has called extract_app_icon for the document of kind k
IconExtractedFor(k) ==
    /\ handlersRun = <<"app">>
    /\ HasKey(env.plist, "CFBundleIconFile")
    /\ k \in {"munki", "jss"}
    /\ recipes[k].buildable
    /\ \E i \in 1..Len(walk) : walk[i] = k

\* C29: when the bundle names an icon file and a munki or jss document is
\* synthesized, extract_app_icon is called with the icon location that was
\* discovered, <bundle>/Contents/Resources/<CFBundleIconFile>, as its source.
C29_IconSource ==
    \A k \in Kinds :
        IconExtractedFor(k) =>
            extract_app_icon_source(recipes[k])
                = input_path_of(env) \o <<"/Contents/Resources/", env.plist["CFBundleIconFile"]>>

\* a run without --config that finds the preferences file an earlier run has
\* written, and can read it
RoundTripRun(i) ==
    /\ i \in 1..Len(runs)
    /\ ~runs[i].config
    /\ runs[i].file # NoFile
    /\ runs[i].readOk

\* C26: without --config, when the preferences file written by an earlier
\* run is there, init_prefs takes the preferences from it: it does not call
\* build_prefs, and the preferred recipe types are exactly those build_prefs
\* saved in the file.
C26_PrefsRoundTrip ==
    pc = "prefs_run" =>
        \A i \in 1..Len(runs) :
            RoundTripRun(i) =>
                /\ runs[i].calls = 0
                /\ runs[i].preferred = {k \in Kinds : InSeq(k, runs[i].file["RecipeTypes"])}


====
